---- MODULE Spec2Model ----
(***************************************************************************)
(* CryptoAlert (src/bot.py): the poll loop `run`, the per-timeframe check  *)
(* `check_timeframe_alerts`, the alert record `candle_end_alerts`, the     *)
(* backoff counter `error_wait_time` and the garbage collection            *)
(* `_clean_old_alerts`.                                                    *)
(*                                                                         *)
(* Time is the UTC clock in whole seconds since the epoch.  Statements     *)
(* take no time; time passes only in the awaited calls: the two HTTP       *)
(* requests per symbol (each bounded by timeout=30) and asyncio.sleep.     *)
(***************************************************************************)
EXTENDS Integers, Sequences, FiniteSets, TLC

VARIABLES
    now,                \* the UTC clock, seconds since the epoch
    pc,                 \* position of run(): "check", "fetch", "finish" (inside
                        \* check_timeframe_alerts) or "sleep" (end of cycle)
    tfIdx,              \* index into Timeframes of the for loop in run()
    symIdx,             \* index into Symbols of the for loop in check_timeframe_alerts
    chk,                \* locals of the check in flight
    coins_info,         \* the coins_info list of the check in flight
    candle_end_alerts,  \* self.candle_end_alerts: alert key -> time recorded
    error_wait_time,    \* self.error_wait_time, minutes
    faults,             \* number of checks so far in which the environment misbehaved
    started,            \* clock at which run() entered its loop
    horizon,            \* the clock value at which the exploration stops
    out,                \* what the last step did (observation only)
    emitted,            \* <<timeframe, candle end>> -> number of unified alerts sent (observation)
    bandPolled,         \* timeframe -> latest candle end evaluated inside the band (observation)
    rlStreak,           \* backoff runs since the last cycle without any error (observation)
    cycleClean,         \* no error so far in the current cycle (observation)
    cycleRl,            \* a rate-limit error occurred in the current cycle (observation)
    cleanRuns,          \* number of calls of _clean_old_alerts (observation)
    outerErrs,          \* number of exceptions the outer except has handled (observation)
    undelivered,        \* <<timeframe, candle end>> whose send_message failed (observation)
    allFailed           \* <<timeframe, candle end>> of checks that got no symbol's data (observation)

vars == <<now, pc, tfIdx, symIdx, chk, coins_info, candle_end_alerts, error_wait_time, faults, started,
          horizon, out, emitted, bandPolled, rlStreak, cycleClean, cycleRl, cleanRuns, outerErrs,
          undelivered, allFailed>>

-----------------------------------------------------------------------------
(* Bounds of the exploration *)

MaxFaults == 2
Horizon == 15000
LongHorizon == 97800
LongStart == 6780
StartTimes == {6300, 6750, 6780, 6900, 7020, 7050, 13980}

(* Program constants *)

Symbols == <<"BTC", "ETH", "XRP", "SOL">>
Timeframes == <<2, 4>>
BandLow == 3
BandHigh == 7
BackoffFloor == 15
CheckStep == 5
MinWaitSecs == 10
MaxAgeSecs == 86400
RequestTimeout == 30

Max(a, b) == IF a >= b THEN a ELSE b

\* the longest a symbol's two requests (candles, price) can take
SlowSecs == 2 * RequestTimeout

-----------------------------------------------------------------------------
(* Candle series: a DataFrame row is [open, close]; is_bearish is derived *)

Candle(o, c) == [open |-> o, close |-> c]

is_bearish(c) == c.close < c.open

SeriesPool ==
    { << Candle(100, 110), Candle(110, 100), Candle(100, 105) >>,
      << Candle(100, 90), Candle(90, 80), Candle(80, 70) >> }

\* df.tail(count)
df_tail(df, count) == SubSeq(df, Len(df) - count + 1, Len(df))

BearishIfAnyDown(df, count) ==
    IF Len(df) < count
    THEN [matched |-> FALSE, start_price |-> 0, end_price |-> 0, drop |-> <<0, 1>>]
    ELSE LET last_candles == df_tail(df, count)
         IN  IF \E i \in 1..count : is_bearish(last_candles[i])
             THEN [matched |-> TRUE, start_price |-> last_candles[1].open,
                   end_price |-> last_candles[count].close,
                   drop |-> <<(last_candles[1].open - last_candles[count].close) * 100,
                              last_candles[1].open>>]
             ELSE [matched |-> FALSE, start_price |-> 0, end_price |-> 0, drop |-> <<0, 1>>]

check_consecutive_bearish(df, count) ==
    IF Len(df) < count
    THEN [matched |-> FALSE, start_price |-> 0, end_price |-> 0, drop |-> <<0, 1>>]
    ELSE LET last_candles == df_tail(df, count)
             all_bearish == \A i \in 1..count : is_bearish(last_candles[i])
         IN  IF all_bearish
             THEN LET start_price == last_candles[1].open
                      end_price == last_candles[count].close
                  IN  [matched |-> TRUE, start_price |-> start_price,
                       end_price |-> end_price,
                       \* drop_percent as the exact fraction numerator / denominator
                       drop |-> <<(start_price - end_price) * 100, start_price>>]
             ELSE [matched |-> FALSE, start_price |-> 0, end_price |-> 0, drop |-> <<0, 1>>]

-----------------------------------------------------------------------------
(* Clock arithmetic *)

\* <<current_candle_start, current_candle_end>> of the candle containing t
CandleTimesByHourOfDay(t, timeframe_hours) ==
    LET hours_since_epoch == t \div 3600
        hour_of_day == hours_since_epoch % 24
        current_candle_start_hour == (hours_since_epoch - hour_of_day)
                                     + (hour_of_day \div timeframe_hours) * timeframe_hours
        current_candle_start == current_candle_start_hour * 3600
    IN  <<current_candle_start, current_candle_start + timeframe_hours * 3600>>

calculate_current_candle_times(t, timeframe_hours) ==
    LET hours_since_epoch == t \div 3600
        current_candle_start_hour == (hours_since_epoch \div timeframe_hours) * timeframe_hours
        current_candle_start == current_candle_start_hour * 3600
    IN  <<current_candle_start, current_candle_start + timeframe_hours * 3600>>

\* datetime.minute
MinuteOf(t) == (t \div 60) % 60

NextCheckSameHour(t) ==
    LET minutes == MinuteOf(t)
        remainder == minutes % CheckStep
        next_minutes == IF remainder = 0 THEN minutes + CheckStep
                        ELSE minutes + (CheckStep - remainder)
    IN  (t - (t % 3600)) + (next_minutes % 60) * 60

calculate_next_check_time(t) ==
    LET minutes == MinuteOf(t)
        remainder == minutes % CheckStep
        next_minutes == IF remainder = 0 THEN minutes + CheckStep
                        ELSE minutes + (CheckStep - remainder)
        \* now.replace(minute=next_minutes % 60, second=0, microsecond=0)
        next_check == (t - (t % 3600)) + (next_minutes % 60) * 60
    IN  IF next_minutes >= 60 THEN next_check + 3600 ELSE next_check

-----------------------------------------------------------------------------
(* check_timeframe_alerts and its parts *)

\* 3 <= minutes_to_end <= 7, with minutes_to_end = seconds / 60
InBandLoose(secs_to_end) == BandLow * 60 <= secs_to_end /\ secs_to_end <= (BandHigh + 1) * 60

in_band(secs_to_end) == BandLow * 60 <= secs_to_end /\ secs_to_end <= BandHigh * 60

\* f"timeframe_{timeframe_hours}_{current_candle_end.strftime('%Y%m%d%H%M')}":
\* the timeframe and the candle end to the minute
AlertKeyNoEnd(timeframe_hours, current_candle_end) == <<timeframe_hours, 0>>

alert_key(timeframe_hours, current_candle_end) == <<timeframe_hours, current_candle_end \div 60>>

\* alert_key in self.candle_end_alerts
NeverAlerted(alerts, key) == FALSE

already_alerted(alerts, key) == key \in DOMAIN alerts

\* the longest run length in 7, 6, 5, 4, 3 whose check matches (the elif chain)
ShortestRun(df, ks) ==
    LET hit == { k \in ks : check_consecutive_bearish(df, k).matched }
    IN  IF hit = {} THEN <<>> ELSE << CHOOSE k \in hit : \A j \in hit : k <= j >>

Longest(df, ks) ==
    LET hit == { k \in ks : check_consecutive_bearish(df, k).matched }
    IN  IF hit = {} THEN <<>> ELSE << CHOOSE k \in hit : \A j \in hit : j <= k >>

\* the fields of generate_coin_info's result that the loop's state depends on;
\* t is the clock when generate_coin_info runs
generate_coin_info(symbol, timeframe_hours, df, t) ==
    [symbol |-> symbol,
     candle_end |-> calculate_current_candle_times(t, timeframe_hours)[2],
     patterns |-> Longest(df, 3..7)]

\* the last two candles of the series are both down
last_two_down(df) == check_consecutive_bearish(df, 2).matched

\* if coins_info: (down2, whether a fetched series ends in two down candles, is not read)
SendAlways(coins, down2) == TRUE

SendOnlyOnDownStreak(coins, down2) == coins # <<>> /\ down2

should_send(coins, down2) == coins # <<>>

\* while True: where run() is after the wait that ends a cycle, whether or not
\* the cycle had an error
RunsUntilError(erred) == IF erred THEN "stopped" ELSE "check"

next_cycle(erred) == "check"

\* the index of the symbol the for loop takes after symbol i: the except of the
\* per-symbol try ends in continue
StopAtFailure(i, ok) == IF ok THEN i + 1 ELSE Len(Symbols) + 1

next_symbol(i, ok) == i + 1

\* self.candle_end_alerts[alert_key] = current_time follows the call of
\* send_unified_alert, which returns normally whether or not the message went out
RecordsOnlyDelivered(sends, delivered) == sends /\ delivered

records_key(sends, delivered) == sends

\* the entries _clean_old_alerts keeps, t being its own clock read
CleanKeepsYounger(alerts, t) ==
    [k \in { k \in DOMAIN alerts : ~(t - alerts[k] >= MaxAgeSecs) } |-> alerts[k]]

clean_old_alerts(alerts, t) ==
    LET old_keys == { k \in DOMAIN alerts : t - alerts[k] > MaxAgeSecs }
    IN  [k \in DOMAIN alerts \ old_keys |-> alerts[k]]

\* self.error_wait_time = max(15, self.error_wait_time * 2)
backoff(wait) == Max(BackoffFloor, wait * 2)

\* self.error_wait_time = 0 after the backoff wait is taken
KeepWait(wait) == wait

wait_after_backoff(wait) == 0


-----------------------------------------------------------------------------
(* What the environment can do *)

\* what the provider does for one symbol: r is "ok", "error" (a failure without
\* the rate-limit marker) or "ratelimit"; secs is how long the requests take
Outcomes(mayFail) ==
    [r : {"ok"}, secs : {0}, df : SeriesPool]
    \cup (IF mayFail
          THEN [r : {"ok"}, secs : {SlowSecs}, df : SeriesPool]
               \cup [r : {"error", "ratelimit"}, secs : {0, SlowSecs}, df : {<<>>}]
          ELSE {})

\* an exception raised by a statement of the try body of check_timeframe_alerts
\* that is outside the per-symbol try (the clock reads before the band test, the
\* building of the unified message): "error", or "ratelimit" when its text
\* carries the rate-limit marker.  It is the only way into the outer except:
\* the failures of the provider are caught per symbol, those of the delivery
\* inside send_unified_alert.
Raises(mayFail) == {"none"} \cup (IF mayFail THEN {"error", "ratelimit"} ELSE {})

NoChk ==
    [timeframe |-> 0, current_time |-> 0, current_candle_end |-> 0, key |-> <<0, 0>>,
     faulty |-> FALSE, down2 |-> FALSE, rlFetch |-> FALSE, failed |-> 0,
     tried |-> {}, okSyms |-> <<>>]

NoOut ==
    [step |-> "init", tf |-> 0, at |-> 0, end |-> 0, inBand |-> FALSE, fresh |-> FALSE,
     coins |-> <<>>, down2 |-> FALSE, sent |-> FALSE, delivered |-> FALSE,
     rlFetch |-> FALSE, failed |-> 0, raised |-> FALSE, handled |-> FALSE,
     prevWait |-> 0, wait |-> 0, target |-> 0, sleepKind |-> "none", cycleClean |-> FALSE,
     cycleRl |-> FALSE, streak |-> 0, before |-> << >>, tried |-> {}, okSyms |-> <<>>]

-----------------------------------------------------------------------------
(* run(): for timeframe in timeframes: check_timeframe_alerts; sleep(1) *)

\* the check returned: asyncio.sleep(1), then the next timeframe or the end of the cycle
Advance(t) ==
    /\ now' = t + 1
    /\ IF tfIdx < Len(Timeframes)
       THEN pc' = "check" /\ tfIdx' = tfIdx + 1
       ELSE pc' = "sleep" /\ tfIdx' = 1
    /\ symIdx' = 1
    /\ chk' = NoChk
    /\ coins_info' = <<>>

\* check_timeframe_alerts up to the for loop over the symbols: the clock reads,
\* the band test and the lookup of the alert key.  When the poll is outside the
\* band or the key is recorded, the check returns here.
CheckBegin ==
    /\ pc = "check"
    /\ now < horizon
    /\ \E early \in Raises(faults < MaxFaults) :
       LET timeframe_hours == Timeframes[tfIdx]
           current_candle_end == calculate_current_candle_times(now, timeframe_hours)[2]
           current_time == now
           secs_to_end == current_candle_end - current_time
           key == alert_key(timeframe_hours, current_candle_end)
           inBand == early = "none" /\ in_band(secs_to_end)
           fresh == ~already_alerted(candle_end_alerts, key)
           seen == [NoOut EXCEPT !.tf = timeframe_hours, !.at = current_time,
                                 !.end = current_candle_end, !.inBand = inBand,
                                 !.fresh = fresh, !.prevWait = error_wait_time]
       IN  /\ bandPolled' = IF inBand
                            THEN [bandPolled EXCEPT ![timeframe_hours] = current_candle_end]
                            ELSE bandPolled
           /\ IF early # "none"
              THEN \* except Exception as e: ... if "rate limit" in str(e).lower()
                   /\ error_wait_time' = IF early = "ratelimit"
                                         THEN backoff(error_wait_time) ELSE error_wait_time
                   /\ rlStreak' = IF early = "ratelimit" THEN rlStreak + 1 ELSE rlStreak
                   /\ faults' = faults + 1
                   /\ outerErrs' = outerErrs + 1
                   /\ cycleClean' = FALSE
                   /\ cycleRl' = (cycleRl \/ early = "ratelimit")
                   /\ out' = [seen EXCEPT !.step = "check", !.raised = TRUE,
                                          !.handled = (early = "ratelimit"),
                                          !.cycleClean = FALSE]
                   /\ Advance(now)
              ELSE IF inBand /\ fresh
              THEN \E faulty \in {FALSE} \cup (IF faults < MaxFaults THEN {TRUE} ELSE {}) :
                   /\ pc' = "fetch"
                   /\ symIdx' = 1
                   /\ coins_info' = <<>>
                   /\ chk' = [NoChk EXCEPT !.timeframe = timeframe_hours,
                                           !.current_time = current_time,
                                           !.current_candle_end = current_candle_end,
                                           !.key = key, !.faulty = faulty]
                   /\ faults' = IF faulty THEN faults + 1 ELSE faults
                   /\ out' = [seen EXCEPT !.step = "begin", !.cycleClean = cycleClean]
                   /\ UNCHANGED <<now, tfIdx, error_wait_time, rlStreak, cycleClean, cycleRl, outerErrs>>
              ELSE /\ out' = [seen EXCEPT !.step = "check", !.cycleClean = cycleClean]
                   /\ Advance(now)
                   /\ UNCHANGED <<error_wait_time, rlStreak, faults, cycleClean, cycleRl, outerErrs>>
    /\ UNCHANGED <<candle_end_alerts, started, horizon, emitted, cleanRuns, undelivered,
                   allFailed>>

\* one iteration of `for symbol in symbols`: fetch_candlestick_data,
\* get_current_price, generate_coin_info; a failure of any of them is caught by
\* the per-symbol except, which only logs
FetchSymbol ==
    /\ pc = "fetch"
    /\ \E o \in Outcomes(chk.faulty) :
       /\ now' = now + o.secs
       /\ coins_info' = IF o.r = "ok"
                        THEN Append(coins_info,
                                    generate_coin_info(Symbols[symIdx], chk.timeframe,
                                                       o.df, now'))
                        ELSE coins_info
       /\ chk' = [chk EXCEPT !.down2 = @ \/ (o.r = "ok" /\ last_two_down(o.df)),
                             !.rlFetch = @ \/ o.r = "ratelimit",
                             !.failed = IF o.r = "ok" THEN @ ELSE @ + 1,
                             !.tried = @ \cup {Symbols[symIdx]},
                             !.okSyms = IF o.r = "ok" THEN Append(@, Symbols[symIdx]) ELSE @]
       /\ cycleClean' = (cycleClean /\ o.r = "ok")
       /\ cycleRl' = (cycleRl \/ o.r = "ratelimit")
       /\ out' = [NoOut EXCEPT !.step = "fetch", !.tf = chk.timeframe,
                               !.at = chk.current_time, !.end = chk.current_candle_end,
                               !.prevWait = error_wait_time,
                               !.cycleClean = cycleClean']
       /\ LET next == next_symbol(symIdx, o.r = "ok")
          IN  IF next <= Len(Symbols)
              THEN pc' = "fetch" /\ symIdx' = next
              ELSE pc' = "finish" /\ symIdx' = symIdx
    /\ UNCHANGED <<tfIdx, candle_end_alerts, error_wait_time, faults, started, horizon,
                   emitted, bandPolled, rlStreak, cleanRuns, outerErrs, undelivered, allFailed>>

\* check_timeframe_alerts after the for loop: send_unified_alert and the record
\* of the key when coins_info is not empty, then the hourly clean-up; an
\* exception raised while the message is built goes to the outer except
CheckFinish ==
    /\ pc = "finish"
    /\ LET wants == should_send(coins_info, chk.down2)
       IN  \E raise \in Raises(chk.faulty /\ wants) :
           \E delivered \in (IF chk.faulty /\ wants /\ raise = "none"
                             THEN BOOLEAN ELSE {TRUE}) :
           LET raised == raise # "none"
               sends == wants /\ ~raised
               handled == raise = "ratelimit"
               recorded == IF records_key(sends, delivered)
                           THEN [k \in DOMAIN candle_end_alerts \cup {chk.key} |->
                                    IF k = chk.key THEN chk.current_time
                                    ELSE candle_end_alerts[k]]
                           ELSE candle_end_alerts
               cleans == ~raised /\ MinuteOf(chk.current_time) = 0
           IN  /\ candle_end_alerts' = IF cleans THEN clean_old_alerts(recorded, now)
                                       ELSE recorded
               /\ cleanRuns' = IF cleans THEN cleanRuns + 1 ELSE cleanRuns
               /\ error_wait_time' = IF handled THEN backoff(error_wait_time)
                                     ELSE error_wait_time
               /\ rlStreak' = IF handled THEN rlStreak + 1 ELSE rlStreak
               /\ emitted' = IF sends
                             THEN LET e == <<chk.timeframe, chk.current_candle_end>>
                                  IN  [k \in DOMAIN emitted \cup {e} |->
                                          IF k \in DOMAIN emitted
                                          THEN (IF k = e THEN emitted[k] + 1 ELSE emitted[k])
                                          ELSE 1]
                             ELSE emitted
               /\ cycleClean' = (cycleClean /\ ~raised /\ delivered)
               /\ cycleRl' = (cycleRl \/ handled)
               /\ outerErrs' = IF raised THEN outerErrs + 1 ELSE outerErrs
               /\ undelivered' = IF sends /\ ~delivered
                                 THEN undelivered \cup {<<chk.timeframe, chk.current_candle_end>>}
                                 ELSE undelivered
               /\ allFailed' = IF chk.failed = Len(Symbols)
                               THEN allFailed \cup {<<chk.timeframe, chk.current_candle_end>>}
                               ELSE allFailed
               /\ out' = [NoOut EXCEPT !.step = "check", !.tf = chk.timeframe,
                                       !.at = chk.current_time,
                                       !.end = chk.current_candle_end,
                                       !.inBand = TRUE, !.fresh = TRUE,
                                       !.coins = coins_info, !.down2 = chk.down2,
                                       !.sent = sends, !.delivered = sends /\ delivered,
                                       !.rlFetch = chk.rlFetch, !.failed = chk.failed,
                                       !.raised = raised, !.handled = handled,
                                       !.prevWait = error_wait_time,
                                       !.cycleClean = cycleClean',
                                       !.before = candle_end_alerts,
                                       !.tried = chk.tried, !.okSyms = chk.okSyms]
    /\ Advance(now)
    /\ UNCHANGED <<faults, started, horizon, bandPolled>>

\* the end of a cycle of run(): the wait until the next check
RunEndOfCycle ==
    /\ pc = "sleep"
    /\ now < horizon
    /\ LET next_check == calculate_next_check_time(now)
           current_time == now
           aligned_wait == next_check - current_time
           backing == error_wait_time > 0
           wait_seconds == IF backing THEN error_wait_time * 60 ELSE aligned_wait
           slept == Max(MinWaitSecs, wait_seconds)
       IN  /\ error_wait_time' = IF backing THEN wait_after_backoff(error_wait_time)
                                 ELSE error_wait_time
           /\ now' = now + slept
           /\ out' = [NoOut EXCEPT !.step = "sleep", !.at = current_time,
                                   !.prevWait = error_wait_time, !.wait = slept,
                                   !.target = next_check,
                                   !.sleepKind = IF backing THEN "backoff" ELSE "aligned",
                                   !.cycleClean = cycleClean, !.cycleRl = cycleRl,
                                   !.streak = rlStreak]
    /\ rlStreak' = IF cycleClean THEN 0 ELSE rlStreak
    /\ cycleClean' = TRUE
    /\ cycleRl' = FALSE
    /\ pc' = next_cycle(~cycleClean)
    /\ UNCHANGED <<tfIdx, symIdx, chk, coins_info, candle_end_alerts, faults, started,
                   horizon, emitted, bandPolled, cleanRuns, outerErrs, undelivered, allFailed>>

\* nothing escapes check_timeframe_alerts (its except catches every Exception, and
\* the notification in the handler has its own try), so the except branch of
\* run()'s loop has nothing to catch and is not an action.

InitAt(t, h, f) ==
    /\ now = t
    /\ pc = "check"
    /\ tfIdx = 1
    /\ symIdx = 1
    /\ chk = NoChk
    /\ coins_info = <<>>
    /\ candle_end_alerts = << >>
    /\ error_wait_time = 0
    /\ faults = f
    /\ started = t
    /\ horizon = h
    /\ out = NoOut
    /\ emitted = << >>
    /\ bandPolled = [tf \in {Timeframes[i] : i \in 1..Len(Timeframes)} |-> 0]
    /\ rlStreak = 0
    /\ cycleClean = TRUE
    /\ cycleRl = FALSE
    /\ cleanRuns = 0
    /\ outerErrs = 0
    /\ undelivered = {}
    /\ allFailed = {}

Init == \E t \in StartTimes : InitAt(t, Horizon, 0)

Next == CheckBegin \/ FetchSymbol \/ CheckFinish \/ RunEndOfCycle

Spec == Init /\ [][Next]_vars

\* a long run in which the environment never misbehaves
InitLong == InitAt(LongStart, LongHorizon, MaxFaults)

SpecLong == InitLong /\ [][Next]_vars

\* a run under the scheduling of asyncio: run() is the only task, and each of its
\* awaits returns (the requests have timeout=30, the sleeps are finite), so a
\* step that can be taken is taken
LiveStart == 6780
LiveHorizon == 9000

InitLive == InitAt(LiveStart, LiveHorizon, 0)

SpecLive == InitLive /\ [][Next]_vars /\ WF_vars(Next)

-----------------------------------------------------------------------------
(* One call of _clean_old_alerts on a record the loop can have built *)

\* a close of both timeframes, and the 2-hour close after it
CleanClose == 14400

CleanKeys == { <<2, CleanClose>>, <<4, CleanClose>>, <<2, CleanClose + 7200>> }

\* how long before the close an alert can be recorded: the band and its middle
CleanLeads == { BandLow * 60, CheckStep * 60, BandHigh * 60 }

\* the clock of the call: 24 h, 24 h and a second, and 25 h after a recording
CleanNows == { CleanClose - CheckStep * 60 + d : d \in {MaxAgeSecs, MaxAgeSecs + 1, 90000} }

CleanRecords ==
    UNION { [ks -> CleanLeads] : ks \in SUBSET CleanKeys }

InitClean ==
    /\ now \in CleanNows
    /\ \E leads \in CleanRecords :
          candle_end_alerts =
              [k \in { alert_key(e[1], e[2]) : e \in DOMAIN leads } |->
                  LET e == CHOOSE e \in DOMAIN leads : alert_key(e[1], e[2]) = k
                  IN  e[2] - leads[e]]
    /\ pc = "clean"
    /\ tfIdx = 1
    /\ symIdx = 1
    /\ chk = NoChk
    /\ coins_info = <<>>
    /\ error_wait_time = 0
    /\ faults = 0
    /\ started = 0
    /\ horizon = 0
    /\ out = NoOut
    /\ emitted = << >>
    /\ bandPolled = [tf \in {Timeframes[i] : i \in 1..Len(Timeframes)} |-> 0]
    /\ rlStreak = 0
    /\ cycleClean = TRUE
    /\ cycleRl = FALSE
    /\ cleanRuns = 0
    /\ outerErrs = 0
    /\ undelivered = {}
    /\ allFailed = {}

CleanPass ==
    /\ pc = "clean"
    /\ candle_end_alerts' = clean_old_alerts(candle_end_alerts, now)
    /\ cleanRuns' = cleanRuns + 1
    /\ out' = [NoOut EXCEPT !.step = "clean", !.at = now, !.before = candle_end_alerts]
    /\ pc' = "cleaned"
    /\ UNCHANGED <<now, tfIdx, symIdx, chk, coins_info, error_wait_time, faults, started,
                   horizon, emitted, bandPolled, rlStreak, cycleClean, cycleRl, outerErrs,
                   undelivered, allFailed>>

NextClean == CleanPass

SpecClean == InitClean /\ [][NextClean]_vars

-----------------------------------------------------------------------------
(* Single calls: the arguments of the call are in chk, its result in out *)

\* the variables of the poll loop, which a single call leaves alone
loopVars == <<tfIdx, symIdx, coins_info, candle_end_alerts, error_wait_time, faults, started,
              horizon, emitted, bandPolled, rlStreak, cycleClean, cycleRl, cleanRuns,
              outerErrs, undelivered, allFailed>>

\* the object after __init__, before run()
Constructed ==
    /\ tfIdx = 1
    /\ symIdx = 1
    /\ coins_info = <<>>
    /\ candle_end_alerts = << >>
    /\ error_wait_time = 0
    /\ faults = 0
    /\ started = 0
    /\ horizon = 0
    /\ emitted = << >>
    /\ bandPolled = [tf \in {Timeframes[i] : i \in 1..Len(Timeframes)} |-> 0]
    /\ rlStreak = 0
    /\ cycleClean = TRUE
    /\ cycleRl = FALSE
    /\ cleanRuns = 0
    /\ outerErrs = 0
    /\ undelivered = {}
    /\ allFailed = {}

(* calculate_current_candle_times(timeframe_hours), called at two clock values *)

MaxHour == 30

\* the first and the last second of every hour up to MaxHour
CandleNows == { h * 3600 + s : h \in 0..MaxHour, s \in {0, 3599} }

\* the timeframes of run() and some that do not divide 24
CandleTimeframes == {1, 2, 4, 5, 7, 24}

InitCandle ==
    /\ now \in CandleNows
    /\ \E T \in CandleTimeframes, t2 \in CandleNows :
          chk = [timeframe_hours |-> T, now2 |-> t2]
    /\ pc = "candle"
    /\ out = NoOut
    /\ Constructed

CandleCall ==
    /\ pc = "candle"
    /\ out' = [step |-> "candle",
               bounds |-> calculate_current_candle_times(now, chk.timeframe_hours),
               bounds2 |-> calculate_current_candle_times(chk.now2, chk.timeframe_hours)]
    /\ pc' = "candle_done"
    /\ UNCHANGED <<now, chk>>
    /\ UNCHANGED loopVars

NextCandle == CandleCall

SpecCandle == InitCandle /\ [][NextCandle]_vars

(* check_consecutive_bearish(df, count) *)

MaxRows == 3
MaxCount == 4

Prices == {70, 80, 90, 100}

BearishRows == { Candle(o, c) : o \in Prices, c \in Prices }

BearishSeries == UNION { [1..n -> BearishRows] : n \in 0..MaxRows }

\* df with the close of row i set to its open
Flattened(df, i) == [df EXCEPT ![i] = Candle(df[i].open, df[i].open)]

InitBearish ==
    /\ \E df \in BearishSeries, count \in 1..MaxCount : chk = [df |-> df, count |-> count]
    /\ now = 0
    /\ pc = "bearish"
    /\ out = NoOut
    /\ Constructed

BearishCall ==
    /\ pc = "bearish"
    /\ out' = [step |-> "bearish",
               result |-> check_consecutive_bearish(chk.df, chk.count),
               flattened |-> { check_consecutive_bearish(Flattened(chk.df, i), chk.count) :
                                  i \in ((Len(chk.df) - chk.count + 1)..Len(chk.df))
                                        \cap (1..Len(chk.df)) }]
    /\ pc' = "bearish_done"
    /\ UNCHANGED <<now, chk>>
    /\ UNCHANGED loopVars

NextBearish == BearishCall

SpecBearish == InitBearish /\ [][NextBearish]_vars

(* generate_coin_info(symbol, timeframe_hours, df, current_price), df being a
   series of the provider: rows [time, open, close] one timeframe apart, of which
   the last is the candle in progress or, when the provider lags, the one before *)

MaxInfoRows == 8
InfoDay == 172800

InfoNows == { InfoDay + 6780, InfoDay + 14100 }

TimedCandle(t, o, c) == [time |-> t, open |-> o, close |-> c]

\* the series of n rows ending with the candle that starts at last; row i is
\* down when i is in downs
TimedSeries(n, downs, last, timeframe_hours) ==
    [i \in 1..n |->
        LET t == last - (n - i) * timeframe_hours * 3600
        IN  IF i \in downs THEN TimedCandle(t, 100, 90) ELSE TimedCandle(t, 90, 100)]

InitInfo ==
    /\ now \in InfoNows
    /\ \E timeframe_hours \in {Timeframes[i] : i \in 1..Len(Timeframes)},
          n \in 0..MaxInfoRows, lag \in {0, 1} :
       \E downs \in SUBSET (1..n) :
          LET current_candle_start ==
                  calculate_current_candle_times(now, timeframe_hours)[1]
              last == current_candle_start - lag * timeframe_hours * 3600
          IN  chk = [symbol |-> Symbols[1], timeframe_hours |-> timeframe_hours,
                     df |-> TimedSeries(n, downs, last, timeframe_hours)]
    /\ pc = "info"
    /\ out = NoOut
    /\ Constructed

InfoCall ==
    /\ pc = "info"
    /\ out' = [step |-> "info",
               info |-> generate_coin_info(chk.symbol, chk.timeframe_hours, chk.df, now)]
    /\ pc' = "info_done"
    /\ UNCHANGED <<now, chk>>
    /\ UNCHANGED loopVars

NextInfo == InfoCall

SpecInfo == InitInfo /\ [][NextInfo]_vars

(* fetch_candlestick_data: from the provider's response to the DataFrame *)

MaxRaw == 3

RawTimes == {0, 7200, 14400}

RawRows == { TimedCandle(t, c[1], c[2]) : t \in RawTimes, c \in {<<100, 90>>, <<90, 100>>} }

RawBatches == UNION { [1..n -> RawRows] : n \in 0..MaxRaw }

\* df.sort_values('time'): the rows in non-decreasing time; pandas' default
\* sort is not stable, so rows of equal time come out in any order
sort_values(rows) ==
    { [i \in 1..Len(rows) |-> rows[perm[i]]] :
        perm \in { f \in [1..Len(rows) -> 1..Len(rows)] :
                      /\ \A i, j \in 1..Len(rows) : i # j => f[i] # f[j]
                      /\ \A i, j \in 1..Len(rows) :
                            i < j => rows[f[i]].time <= rows[f[j]].time } }

\* what fetch_candlestick_data does with a response: a DataFrame, or an exception
\* when the response is not 'Success' or has no rows (df['time'] on an empty frame)
fetch_results(response, data) ==
    IF response # "Success" \/ data = <<>>
    THEN { [r |-> "error", df |-> <<>>] }
    ELSE { [r |-> "ok", df |-> df] : df \in sort_values(data) }

InitFetch ==
    /\ \E response \in {"Success", "Error"}, data \in RawBatches :
          chk = [response |-> response, data |-> data]
    /\ now = 0
    /\ pc = "fetchcall"
    /\ out = NoOut
    /\ Constructed

FetchCall ==
    /\ pc = "fetchcall"
    /\ \E res \in fetch_results(chk.response, chk.data) :
          out' = [step |-> "fetchcall", r |-> res.r, df |-> res.df]
    /\ pc' = "fetched"
    /\ UNCHANGED <<now, chk>>
    /\ UNCHANGED loopVars

NextFetch == FetchCall

SpecFetch == InitFetch /\ [][NextFetch]_vars

(* _calculate_next_check_time() *)

FirstHour == 22
LastHour == 23

\* four seconds of every minute of the last hours of a day
NextNows == { h * 3600 + m * 60 + sec : h \in FirstHour..LastHour, m \in 0..59,
                                        sec \in {0, 1, 30, 59} }

InitNext ==
    /\ now \in NextNows
    /\ chk = NoChk
    /\ pc = "next"
    /\ out = NoOut
    /\ Constructed

NextCheckCall ==
    /\ pc = "next"
    /\ out' = [step |-> "next", next_check |-> calculate_next_check_time(now)]
    /\ pc' = "next_done"
    /\ UNCHANGED <<now, chk>>
    /\ UNCHANGED loopVars

NextNextCheck == NextCheckCall

SpecNext == InitNext /\ [][NextNextCheck]_vars

-----------------------------------------------------------------------------
(* Claims *)

\* the close the last step's check was about
OutClose == <<out.tf, out.end>>

\* C1: over any sequence of polls at most one unified pre-close alert is sent per
\* (timeframe, candle-close instant), however many polls land inside the band
C1_AtMostOneAlertPerClose ==
    \A e \in DOMAIN emitted : emitted[e] <= 1

\* a poll inside the band found the alert for its close already sent
C1_Witness ==
    /\ out.step = "check" /\ out.inBand /\ ~out.fresh
    /\ OutClose \in DOMAIN emitted /\ emitted[OutClose] = 1

\* C2 (as claimed): every candle close whose band began after the loop started
\* has had a poll of its timeframe inside the band by the time it passes; stated
\* for the runs in which no exception has reached the outer except, so that the
\* irregular polls are those the fetches and the order of the timeframes cause
C2_EveryCloseHasBandPoll ==
    outerErrs = 0 =>
        \A i \in 1..Len(Timeframes) :
            LET tf == Timeframes[i]
                lastClose == calculate_current_candle_times(now, tf)[1]
            IN  lastClose - BandHigh * 60 >= started => bandPolled[tf] >= lastClose

C4_RateLimitedFetchBacksOff ==
    (out.step = "check" /\ out.rlFetch)
        => error_wait_time = Max(BackoffFloor, 2 * out.prevWait)

\* C5 (as claimed): the n-th consecutive rate-limit error handled by the backoff
\* path (n = 1, 2, 3; no error-free cycle in between) leaves a wait of 15 * 2^(n-1)
C5_ConsecutiveErrorsDouble ==
    (out.step = "check" /\ out.handled /\ rlStreak \in 1..3)
        => error_wait_time = BackoffFloor * 2 ^ (rlStreak - 1)

\* C6: every cycle starts with error_wait_time = 0, and a cycle in which no
\* rate-limit error occurred sleeps until the next aligned check time
C6_WaitClearedAndAlignedSleep ==
    /\ (pc = "check" /\ tfIdx = 1) => error_wait_time = 0
    /\ (out.step = "sleep" /\ ~out.cycleRl)
          => /\ out.sleepKind = "aligned"
             /\ now = out.at + Max(MinWaitSecs, calculate_next_check_time(out.at) - out.at)

\* a cycle without rate-limit error slept to the aligned time right after cycles
\* that backed off
C6_Witness ==
    /\ out.step = "sleep" /\ ~out.cycleRl /\ out.cycleClean /\ out.streak > 0
    /\ out.sleepKind = "aligned" /\ error_wait_time = 0

\* C7 (as claimed): an entry more than 24 hours old is removed by the next hourly pass
C7_OldEntriesCollected ==
    \A k \in DOMAIN candle_end_alerts : now - candle_end_alerts[k] <= MaxAgeSecs + 3600

C9_NextCloseNotSuppressed ==
    (/\ out.step = "check" /\ out.inBand /\ ~out.raised
     /\ <<out.tf, out.end - out.tf * 3600>> \in DOMAIN emitted
     /\ OutClose \notin DOMAIN emitted)
        => (out.fresh /\ out.coins = <<>>)

\* the alert for E + T sent while the record for E is still stored
C9_Witness ==
    /\ out.step = "check" /\ out.sent
    /\ <<out.tf, out.end - out.tf * 3600>> \in DOMAIN emitted
    /\ alert_key(out.tf, out.end - out.tf * 3600) \in DOMAIN candle_end_alerts
    /\ emitted[OutClose] = 1

\* C10: an alert is sent only by a poll whose clock is 3 to 7 minutes (inclusive)
\* before the close of the candle open at that clock
C10_AlertOnlyInsideBand ==
    out.sent =>
        /\ out.end = calculate_current_candle_times(out.at, out.tf)[2]
        /\ BandLow * 60 <= out.end - out.at
        /\ out.end - out.at <= BandHigh * 60

\* alerts sent by polls exactly 7 minutes before the close
C10_Witness ==
    out.sent /\ out.end - out.at = BandHigh * 60

\* C11: for every clock value at hour-since-epoch h and every timeframe T, also
\* one that does not divide 24, calculate_current_candle_times returns
\* start = floor(h / T) * T hours and end = start + T hours, so start <= now < end
\* and start is a multiple of T hours; two clock values inside the same
\* T-hour-aligned window get the same bounds; for T = 4 the hours 0, 3, 4, 7, 8
\* give the starts 0, 0, 4, 4, 8
C11_Starts4 == [h \in {0, 3, 4, 7, 8} |-> IF h < 4 THEN 0 ELSE IF h < 8 THEN 4 ELSE 8]

C11_SameWindow ==
    LET width == chk.timeframe_hours * 3600
    IN  \E w \in 0..MaxHour + 1 :
           /\ w * width <= now /\ now < (w + 1) * width
           /\ w * width <= chk.now2 /\ chk.now2 < (w + 1) * width

C11_CandleBoundsAligned ==
    pc = "candle_done" =>
        LET T == chk.timeframe_hours
            h == now \div 3600
            start == out.bounds[1]
            end == out.bounds[2]
        IN  /\ start % (T * 3600) = 0
            /\ start <= now /\ now < end
            /\ end = start + T * 3600
            /\ \A m \in 0..MaxHour : (m * T <= h /\ h < (m + 1) * T) => start = m * T * 3600
            /\ C11_SameWindow => out.bounds = out.bounds2
            /\ (T = 4 /\ h \in DOMAIN C11_Starts4) => start = C11_Starts4[h] * 3600

C11_Witness ==
    /\ pc = "candle_done"
    /\ chk.timeframe_hours = 7
    /\ now \div 3600 = 27
    /\ chk.now2 \div 3600 = 21
    /\ out.bounds = <<21 * 3600, 28 * 3600>>
    /\ out.bounds2 = out.bounds

\* C12: check_consecutive_bearish(df, k) matches exactly when the series has at
\* least k candles and each of its last k candles has close < open, and no longer
\* matches once any one of them has close >= open; when it matches, start_price
\* is the open of the first of those k candles, end_price the close of the last
\* and drop_percent is (start_price - end_price) / start_price * 100 (30 for the
\* opens 100, 90, 80 and closes 90, 80, 70); otherwise it returns (false, 0, 0, 0)
C12_NoMatch == [matched |-> FALSE, start_price |-> 0, end_price |-> 0, drop |-> <<0, 1>>]

C12_ConsecutiveBearishExact ==
    pc = "bearish_done" =>
        LET df == chk.df
            k == chk.count
            first == Len(df) - k + 1
            r == out.result
            lastAllDown == Len(df) >= k /\ \A i \in first..Len(df) : df[i].close < df[i].open
        IN  /\ r.matched <=> lastAllDown
            /\ r.matched =>
                  /\ r.start_price = df[first].open
                  /\ r.end_price = df[Len(df)].close
                  /\ r.drop[2] # 0
                  /\ r.drop[1] * r.start_price
                        = (r.start_price - r.end_price) * 100 * r.drop[2]
            /\ ~r.matched => r = C12_NoMatch
            /\ \A f \in out.flattened : f = C12_NoMatch
            /\ (k = 3 /\ df = <<Candle(100, 90), Candle(90, 80), Candle(80, 70)>>)
                  => r.matched /\ r.drop[1] = 30 * r.drop[2]

C12_Witness ==
    /\ pc = "bearish_done"
    /\ chk.count = 3
    /\ chk.df = <<Candle(100, 90), Candle(90, 80), Candle(80, 70)>>
    /\ out.result.matched
    /\ out.result.start_price = 100
    /\ out.result.end_price = 70
    /\ Cardinality(out.flattened) = 1

\* C13: when the delivery of a unified alert fails, the failure stays inside
\* send_unified_alert (the outer except does not run), the alert key of that
\* (timeframe, candle close) is recorded all the same, no later poll sends the
\* alert for that close again, and the loop goes on with the next timeframe
C13_FailedDeliveryStillRecorded ==
    /\ \A c \in undelivered :
          /\ alert_key(c[1], c[2]) \in DOMAIN candle_end_alerts
          /\ c \in DOMAIN emitted /\ emitted[c] = 1
    /\ (out.step = "check" /\ out.sent /\ ~out.delivered) =>
          /\ OutClose \in undelivered
          /\ ~out.raised
          /\ chk = NoChk
          /\ \/ \E i \in 1..(Len(Timeframes) - 1) :
                   out.tf = Timeframes[i] /\ pc = "check" /\ tfIdx = i + 1
             \/ out.tf = Timeframes[Len(Timeframes)] /\ pc = "sleep"
    /\ (out.step \in {"check", "begin"} /\ out.inBand /\ OutClose \in undelivered
          /\ ~(out.sent /\ ~out.delivered)) => ~out.fresh

\* a poll inside the band finds the key of a close whose delivery failed
C13_Witness ==
    /\ out.step = "check"
    /\ out.inBand
    /\ ~out.fresh
    /\ OutClose \in undelivered
    /\ emitted[OutClose] = 1

\* C14: a failure while the data of one symbol is collected stays inside the
\* per-symbol step: every symbol of the timeframe is still tried in the same
\* check, and the unified alert is sent with exactly the symbols that succeeded
C14_SymbolFailureIsolated ==
    /\ out.step = "fetch" =>
          /\ pc \in {"fetch", "finish"}
          /\ pc = "fetch" => symIdx = Cardinality(chk.tried) + 1
          /\ pc = "finish" => chk.tried = { Symbols[i] : i \in 1..Len(Symbols) }
    /\ (out.step = "check" /\ out.inBand /\ out.fresh) =>
          /\ out.tried = { Symbols[i] : i \in 1..Len(Symbols) }
          /\ Len(out.okSyms) + out.failed = Len(Symbols)
          /\ [i \in 1..Len(out.coins) |-> out.coins[i].symbol] = out.okSyms
          /\ (out.okSyms # <<>> /\ ~out.raised) => out.sent

C14_Witness ==
    /\ out.step = "check"
    /\ out.sent
    /\ out.failed = 1
    /\ out.okSyms = <<"ETH", "XRP", "SOL">>
    /\ Len(out.coins) = 3

\* C15: run() never stops because of an error in a cycle: after an exception of
\* a fetch, of a delivery or of a check (handled by the outer except), the loop
\* reaches its end-of-cycle wait and starts another cycle.  LiveMargin is the
\* longest the rest of a cycle can take, so that the wait starts before the
\* exploration's horizon.
LiveMargin == 600

C15_Erred ==
    \/ out.step = "fetch" /\ ~cycleClean
    \/ out.step = "check" /\ out.raised
    \/ out.step = "check" /\ out.sent /\ ~out.delivered

C15_CycleStarts == out.step = "sleep" /\ pc = "check" /\ tfIdx = 1

C15_NewCycleAfterError ==
    []((C15_Erred /\ now + LiveMargin < horizon) => <>C15_CycleStarts)

\* a cycle that had an exception in the outer except, a failed fetch and a failed
\* delivery has ended and the next one is starting
C15_Witness ==
    /\ C15_CycleStarts
    /\ ~out.cycleClean
    /\ outerErrs > 0
    /\ undelivered # {}
    /\ now < horizon

\* C16: a streak of k consecutive down candles reported in an alert is computed
\* only from candles that are complete when it is evaluated (now >= candle end):
\* a last candle that is still forming never counts towards a reported streak
C16_StreakFromCompleteCandles ==
    pc = "info_done" =>
        \A j \in 1..Len(out.info.patterns) :
            LET k == out.info.patterns[j]
            IN  \A i \in (Len(chk.df) - k + 1)..Len(chk.df) :
                   chk.df[i].time + chk.timeframe_hours * 3600 <= now

\* C17: the series built from any batch of raw records, unsorted and possibly
\* with repeated start times, has strictly increasing start times and no
\* duplicate start; of the records with the same start only the last one of the
\* input is kept
C17_SeriesStrictlyIncreasing ==
    (pc = "fetched" /\ out.r = "ok") =>
        /\ \A i \in 1..(Len(out.df) - 1) : out.df[i].time < out.df[i + 1].time
        /\ \A i \in 1..Len(out.df) :
              \E j \in 1..Len(chk.data) :
                 /\ chk.data[j] = out.df[i]
                 /\ \A l \in (j + 1)..Len(chk.data) : chk.data[l].time # out.df[i].time

\* C18: for a coin of an alert generate_coin_info reports at most one streak, the
\* largest k of 3..7 for which the last k candles are all down; it reports none
\* exactly when the last 3 candles are not all down
C18_LastAllDown(k) ==
    /\ Len(chk.df) >= k
    /\ \A i \in (Len(chk.df) - k + 1)..Len(chk.df) : chk.df[i].close < chk.df[i].open

C18_OnlyLongestStreak ==
    pc = "info_done" =>
        LET patterns == out.info.patterns
        IN  /\ Len(patterns) <= 1
            /\ \A j \in 1..Len(patterns) :
                  /\ patterns[j] \in 3..7
                  /\ C18_LastAllDown(patterns[j])
                  /\ \A k \in (patterns[j] + 1)..7 : ~C18_LastAllDown(k)
            /\ patterns = <<>> <=> ~C18_LastAllDown(3)

\* five down candles after an up one: the streaks of 3, 4 and 5 all match
C18_Witness ==
    /\ pc = "info_done"
    /\ Len(chk.df) = MaxInfoRows
    /\ C18_LastAllDown(5)
    /\ ~C18_LastAllDown(6)
    /\ out.info.patterns = <<5>>

\* C19: for every clock value _calculate_next_check_time returns an instant
\* strictly after it and at most 5 minutes after it, whose minute is divisible
\* by 5 and whose seconds are zero, also when that 5-minute mark is in the next
\* hour or in the next day
C19_NextCheckIsNextMark ==
    pc = "next_done" =>
        /\ out.next_check > now
        /\ out.next_check <= now + CheckStep * 60
        /\ out.next_check % 60 = 0
        /\ MinuteOf(out.next_check) % CheckStep = 0

\* 23:57:30 gives 00:00:00 of the next day
C19_Witness ==
    /\ pc = "next_done"
    /\ now = 23 * 3600 + 57 * 60 + 30
    /\ out.next_check = 24 * 3600

\* C20: when the data collection fails for every symbol during a poll inside the
\* band, no alert is sent and candle_end_alerts is left as it was, so a later
\* poll inside the band for the same candle close still attempts the alert
C20_AllFailedLeavesNoTrace ==
    /\ (out.step = "check" /\ out.inBand /\ out.fresh /\ out.failed = Len(Symbols)) =>
          /\ out.coins = <<>>
          /\ ~out.sent
          /\ candle_end_alerts = out.before
          /\ ~already_alerted(candle_end_alerts, alert_key(out.tf, out.end))
          /\ OutClose \in allFailed
    /\ (out.step \in {"begin", "check"} /\ out.inBand /\ OutClose \in allFailed
          /\ OutClose \notin DOMAIN emitted) => out.fresh

\* the alert goes out at a later poll for a close whose first poll got no data
C20_Witness ==
    /\ out.step = "check"
    /\ out.sent
    /\ out.failed = 0
    /\ OutClose \in allFailed
    /\ emitted[OutClose] = 1

\* C21: within one alert, the current candle that generate_coin_info works out
\* for each coin (to pick the coin's previous candle) is the candle whose close
\* the alert is keyed on: the clock reads made after the suspensions of the
\* per-symbol fetches never fall in a later candle than the read at the start
\* of check_timeframe_alerts
C21_CoinsUseKeyedCandle ==
    /\ pc \in {"fetch", "finish"} =>
          \A i \in 1..Len(coins_info) : coins_info[i].candle_end = chk.current_candle_end
    /\ (out.step = "check" /\ out.sent) =>
          \A i \in 1..Len(out.coins) : out.coins[i].candle_end = out.end

====
